---- MODULE Spec2Model ----
(***************************************************************************)
(* Model of the Meta Ads pipeline: the paginated, rate-limited fetch of    *)
(* utils/graph_api.py, the windowed delete-insert of utils/database.py and *)
(* the cross-store sync of utils/database.py.                              *)
(*                                                                         *)
(* Each component has its own specification over the module's variables;   *)
(* the variables of the components a specification does not exercise stay  *)
(* at their initial value.                                                 *)
(***************************************************************************)
EXTENDS Integers, Sequences, FiniteSets, TLC

VARIABLES
    \* ---- GraphAPIClient.paginate_api ----
    pc,          \* "idle" | "loop" (inside the while) | "returned" | "raised"
    next_url,    \* local next_url: a URL, or NoUrl
    all_data,    \* local all_data: the accumulated items
    page_count,  \* local page_count
    server,      \* the API: URL -> [data, next]
    budget,      \* rate-limited answers the API may still give
    requests,    \* number of requests.get calls issued
    reqs,        \* number of requests.get calls issued, per URL
    rls,         \* number of rate-limited answers received, per URL
    lastReq,     \* the last requests.get call: [url, params]
    lastResp,    \* what the last requests.get call produced
    fetched,     \* the URLs whose page was read with status 200, in order
    \* ---- DatabaseManager.upsert_dataframe ----
    table,       \* the PostgreSQL table: row -> number of copies
    df,          \* the DataFrame handed to upsert_dataframe
    tableBefore, \* the table before the first call
    tableAfter1, \* the table after the first call
    upsLog,      \* how each call ended so far: "returned" | "raised"
    deletes,     \* DELETE statements executed
    inserts,     \* to_sql calls issued
    \* ---- extract_account_data / extract_meta_ads_data ----
    step,        \* the statement of the account pipeline that runs next
    insights,    \* local insights
    campaigns,   \* local campaigns
    df_ads,      \* local df_ads
    df_actions,  \* local df_actions
    actTable,    \* the account's <table>_actions (table is its <table>)
    fatalSeen,   \* a pagination of this run was ended by a fatal answer
    disposed,    \* calls of db_manager.dispose()
    extLog,      \* the steps executed so far, in order
    raisedAt,    \* the step whose exception left extract_meta_ads_data, or ""
    \* ---- DatabaseManager.sync_postgres_to_sqlserver ----
    now,         \* the calendar day of datetime.now()
    source,      \* the date cells of the rows of the PostgreSQL view
    target,      \* the SQL Server table: date -> number of rows
    syncArgs,    \* the arguments days, chunksize, max_threads
    syncPc,      \* "idle" | "start" | "read" | "inserting" | "returned" | "raised"
                 \*   | "task_success" | "task_failed"
    mapping,     \* the entry of sync_mappings being synced, 0 outside the task
    syncDisposed,\* calls of db_manager.dispose() in sync_to_sqlserver
    syncRun,     \* 1 for the first run, 2 for the run after it
    sdf,         \* local df: the date cells of the rows read
    start_date,  \* local start_date
    end_date,    \* local end_date
    chunkState,  \* per chunk: "queued" | "running" | "ok" | "failed"
    inserted,    \* the dates of the rows this run has inserted
    targetAfter1,\* the target when the first run ended
    cleanRuns,   \* the runs that returned with no failed chunk
    sourceColumns, \* the columns of the PostgreSQL view, in order
    targetColumns, \* the columns of the SQL Server table, in order
    df_columns,  \* df.columns of the local df
    syncError,   \* what made the sync raise: "none" | "db" |
                 \*   "source_column" | "target_column"
    \* ---- AccountsConfig and the DAG of meta_graph_api_pipeline.py ----
    envTokens,   \* GRAPH_API_TOKENS, split at the commas
    envAccounts, \* META_ACCOUNTS, split at the commas, each item at the colons
    dagPc,       \* "idle" | "load" | "parsed" | "config_error"
    tokens,      \* accounts_config.tokens
    accounts,    \* accounts_config.accounts
    tasks,       \* the extraction tasks of the DAG, group after group
    taskState,   \* per task: "none" | "running" | "up_for_retry" | "success" | "failed"
    taskTries,   \* per task: the attempts started
    syncTask,    \* state and tries of the task sync_to_sqlserver
    apiCalls     \* the <<account_id, token>> of the extractions that called the API

pagVars == <<pc, next_url, all_data, page_count, server, budget,
             requests, reqs, rls, lastReq, lastResp, fetched>>

upsVars == <<table, df, tableBefore, tableAfter1, upsLog, deletes, inserts>>

extVars == <<step, insights, campaigns, df_ads, df_actions, actTable,
             fatalSeen, disposed, extLog, raisedAt>>

syncVars == <<now, source, target, syncArgs, syncPc, syncRun, sdf, start_date,
              end_date, chunkState, inserted, targetAfter1, cleanRuns,
              sourceColumns, targetColumns, df_columns, syncError,
              mapping, syncDisposed>>

dagVars == <<envTokens, envAccounts, dagPc, tokens, accounts, tasks, taskState,
             taskTries, syncTask, apiCalls>>

vars == <<pagVars, upsVars, extVars, syncVars, dagVars>>

(***************************************************************************)
(* Bounds of the model.                                                    *)
(***************************************************************************)
MaxUrl == 2
RateBudget == 2
MaxDate == 3
MaxBatch == 2
MaxSyncDay == 4
MaxSourceRows == 2
MaxTokens == 2
MaxAccounts == 3

\* A finite chain needs at most MaxUrl + RateBudget requests; a cyclic
\* server is followed for a few more.
MaxRequests == MaxUrl + RateBudget + 1

(***************************************************************************)
(* Helpers on sequences.                                                   *)
(***************************************************************************)
RECURSIVE Concat(_, _)
\* The pages of the URLs in us, concatenated in order.
Concat(srv, us) ==
    IF us = <<>> THEN <<>>
    ELSE srv[Head(us)].data \o Concat(srv, Tail(us))

(***************************************************************************)
(* The API as seen by paginate_api.                                        *)
(***************************************************************************)
NoUrl == 0
url == 1
Urls == 1..MaxUrl

\* The 'data' array of a page.
PageItems == {<<>>, <<1>>, <<1, 2>>}

Servers == [Urls -> [data : PageItems, next : Urls \cup {NoUrl}]]

\* Response bodies of non-200 answers, and what str.lower makes of them.
\* The first two are what the API sends when it throttles a caller.
RateLimitTexts == {"too many calls",
                   "(#17) User request limit reached: Too Many Calls"}
ErrTexts == RateLimitTexts \cup {"Invalid OAuth access token"}

Lower(text) ==
    CASE text = "(#17) User request limit reached: Too Many Calls"
           -> "(#17) user request limit reached: too many calls"
      [] text = "Invalid OAuth access token" -> "invalid oauth access token"
      [] OTHER -> text

\* The strings of the model that have "too many calls" as a substring.
ContainsTooManyCalls(text) ==
    text \in {"too many calls",
              "(#17) user request limit reached: too many calls",
              "(#17) User request limit reached: too many calls",
              "{data: [{ad_name: too many calls}]}"}

NoResp == [status |-> 0, text |-> "none"]
\* requests.get raised a RequestException: there is no response.
NetworkError == [status |-> 0, text |-> "RequestException"]
\* A 200 answer; its body is the page, whatever text the page holds.
OkResp == [status |-> 200, text |-> "{data: [...]}"]
OkResps == {OkResp, [status |-> 200, text |-> "{data: [{ad_name: too many calls}]}"]}
ErrResps == [status : {400, 429}, text : ErrTexts]
Outcomes == OkResps \cup {NetworkError} \cup ErrResps

\* graph_api.py:90
IsRateLimitMutant(resp) == "too many calls" = resp.text
IsRateLimit(resp) == ContainsTooManyCalls(Lower(resp.text))

\* graph_api.py:82
RequestParams(nu, u) == nu = u

\* graph_api.py:104
NextOf(json) == json.next

\* graph_api.py:98-99
ExtendMutant(acc, json) == json.data \o acc
Extend(acc, json) == acc \o json.data

(***************************************************************************)
(* One iteration of the while loop of paginate_api, lines 78-109: what the *)
(* locals become and how the iteration ends ("next": back to the loop      *)
(* test, "break": leave the loop, "raise": an exception leaves the         *)
(* function).                                                              *)
(***************************************************************************)
OnErrorStatusNoRetry(st, resp) == [st EXCEPT !.exit = "break"]
\* lines 86-95
OnErrorStatus(st, resp) ==
    IF IsRateLimit(resp)
    THEN [st EXCEPT !.exit = "next"]     \* sleep, continue
    ELSE [st EXCEPT !.exit = "break"]

\* lines 97-105
OnSuccess(st, json) ==
    [next_url   |-> NextOf(json),
     all_data   |-> Extend(st.all_data, json),
     page_count |-> st.page_count + 1,
     exit       |-> "next"]

OnRequestExceptionRaise(st) == [st EXCEPT !.exit = "raise"]
OnRequestExceptionClear(st) == [st EXCEPT !.exit = "break", !.all_data = <<>>]
\* lines 107-109
OnRequestException(st) == [st EXCEPT !.exit = "break"]

LoopBody(st, resp, srv) ==
    IF resp = NetworkError THEN OnRequestException(st)
    ELSE IF resp.status # 200 THEN OnErrorStatus(st, resp)
    ELSE OnSuccess(st, srv[st.next_url])

\* line 78 (the loop test) and line 112 (the return).
AfterIteration(st) ==
    CASE st.exit = "raise" -> "raised"
      [] st.exit = "break" -> "returned"
      [] OTHER -> IF st.next_url # NoUrl THEN "loop" ELSE "returned"

Locals == [next_url |-> next_url, all_data |-> all_data,
           page_count |-> page_count, exit |-> "next"]

\* The answer is a throttling one: a non-200 status with a rate-limit text.
Throttled(resp) == resp.status \notin {0, 200} /\ resp.text \in RateLimitTexts

\* What the API may answer: throttling answers are bounded by budget.
MayAnswer(resp) == Throttled(resp) => budget > 0

NewBudget(resp) == IF Throttled(resp) THEN budget - 1 ELSE budget

Iterate(resp) ==
    /\ pc = "loop"
    /\ requests < MaxRequests
    /\ MayAnswer(resp)
    /\ LET st == LoopBody(Locals, resp, server) IN
        /\ next_url' = st.next_url
        /\ all_data' = st.all_data
        /\ page_count' = st.page_count
        /\ pc' = AfterIteration(st)
    /\ budget' = NewBudget(resp)
    /\ requests' = requests + 1
    /\ reqs' = [reqs EXCEPT ![next_url] = @ + 1]
    /\ rls' = IF Throttled(resp) THEN [rls EXCEPT ![next_url] = @ + 1] ELSE rls
    /\ lastReq' = [url |-> next_url, params |-> RequestParams(next_url, url)]
    /\ lastResp' = resp
    /\ fetched' = IF resp.status = 200 THEN Append(fetched, next_url) ELSE fetched
    /\ UNCHANGED server
    /\ UNCHANGED <<upsVars, extVars, syncVars, dagVars>>

\* lines 72-74: the state at the first loop test.
PagInit ==
    /\ pc = "loop"
    /\ next_url = url
    /\ all_data = <<>>
    /\ page_count = 1
    /\ server \in Servers
    /\ budget \in 0..RateBudget
    /\ requests = 0
    /\ reqs = [u \in Urls |-> 0]
    /\ rls = [u \in Urls |-> 0]
    /\ lastReq = [url |-> NoUrl, params |-> FALSE]
    /\ lastResp = NoResp
    /\ fetched = <<>>

\* The component is not exercised.
PagIdle ==
    /\ pc = "idle"
    /\ next_url = NoUrl
    /\ all_data = <<>>
    /\ page_count = 1
    /\ server = [u \in Urls |-> [data |-> <<>>, next |-> NoUrl]]
    /\ budget = 0
    /\ requests = 0
    /\ reqs = [u \in Urls |-> 0]
    /\ rls = [u \in Urls |-> 0]
    /\ lastReq = [url |-> NoUrl, params |-> FALSE]
    /\ lastResp = NoResp
    /\ fetched = <<>>

Success == \E resp \in OkResps : Iterate(resp)
ErrorStatus == \E resp \in ErrResps : Iterate(resp)
RequestException == Iterate(NetworkError)

(***************************************************************************)
(* DatabaseManager.upsert_dataframe, database.py:84-130.  A table is a     *)
(* multiset of rows; a DataFrame is a sequence of rows.                    *)
(***************************************************************************)
Dates == 1..MaxDate
Vals == {1, 2}
Rows == [date : Dates, val : Vals]
EmptyTable == [r \in Rows |-> 0]
InitTables == [Rows -> 0..1]

RECURSIVE SeqsUpTo(_, _)
\* The sequences over S of length at most n.
SeqsUpTo(S, n) ==
    IF n = 0 THEN {<<>>}
    ELSE LET shorter == SeqsUpTo(S, n - 1)
         IN shorter \cup {Append(q, x) : q \in shorter, x \in S}

Batches == SeqsUpTo(Rows, MaxBatch)

\* line 100: df.empty
DfEmptyMutant(frame) == FALSE
DfEmpty(frame) == Len(frame) = 0

RECURSIVE MinDate(_)
\* line 105: df[date_column].min()
MinDate(frame) ==
    IF Len(frame) = 0 THEN 0
    ELSE IF Len(frame) = 1 THEN frame[1].date
    ELSE LET m == MinDate(Tail(frame))
         IN IF frame[1].date < m THEN frame[1].date ELSE m

RECURSIVE MaxDateOf(_)
\* line 106: df[date_column].max()
MaxDateOf(frame) ==
    IF Len(frame) = 0 THEN 0
    ELSE IF Len(frame) = 1 THEN frame[1].date
    ELSE LET m == MaxDateOf(Tail(frame))
         IN IF frame[1].date > m THEN frame[1].date ELSE m

\* lines 110-116: DELETE ... WHERE date BETWEEN :min_date AND :max_date
DeleteBetweenMutant(t, lo, hi) ==
    [r \in Rows |-> IF lo < r.date /\ r.date <= hi THEN 0 ELSE t[r]]
DeleteBetween(t, lo, hi) ==
    [r \in Rows |-> IF lo <= r.date /\ r.date <= hi THEN 0 ELSE t[r]]

RECURSIVE InsertRows(_, _)
\* lines 120-128: df.to_sql(..., if_exists='append'), one transaction
InsertRows(t, frame) ==
    IF Len(frame) = 0 THEN t
    ELSE InsertRows([t EXCEPT ![Head(frame)] = @ + 1], Tail(frame))

\* What the database does to the two statements of one call.
DbOutcomes == {"ok", "delete_fails", "insert_fails"}

DeleteRolledBack(t, cleared) == t
\* lines 115-128: the delete is committed when its with block ends, before
\* to_sql starts: the table after a to_sql that failed.
AfterFailedInsert(t, cleared) == cleared

\* lines 100-130: the table after the call, whether the call raised, and the
\* statements it executed.
UpsertDataframe(t, frame, db) ==
    IF DfEmpty(frame)
    THEN [table |-> t, raised |-> FALSE, deletes |-> 0, inserts |-> 0]
    ELSE IF db = "delete_fails"
    THEN [table |-> t, raised |-> TRUE, deletes |-> 1, inserts |-> 0]
    ELSE LET cleared == DeleteBetween(t, MinDate(frame), MaxDateOf(frame))
         IN IF db = "insert_fails"
            THEN [table |-> AfterFailedInsert(t, cleared), raised |-> TRUE,
                  deletes |-> 1, inserts |-> 1]
            ELSE [table |-> InsertRows(cleared, frame), raised |-> FALSE,
                  deletes |-> 1, inserts |-> 1]

\* One call of upsert_dataframe(df, table, "date").
UpsertCall(db) ==
    /\ LET r == UpsertDataframe(table, df, db) IN
        /\ table' = r.table
        /\ upsLog' = Append(upsLog, IF r.raised THEN "raised" ELSE "returned")
        /\ deletes' = deletes + r.deletes
        /\ inserts' = inserts + r.inserts
        /\ tableAfter1' = IF upsLog = <<>> THEN r.table ELSE tableAfter1
    /\ UNCHANGED <<df, tableBefore>>
    /\ UNCHANGED <<pagVars, extVars, syncVars, dagVars>>

\* The first call, and a second call with the same DataFrame.
FirstUpsert == upsLog = <<>> /\ \E db \in DbOutcomes : UpsertCall(db)
SecondUpsert == Len(upsLog) = 1 /\ \E db \in DbOutcomes : UpsertCall(db)

UpsInit ==
    /\ table \in InitTables
    /\ df \in Batches
    /\ tableBefore = table
    /\ tableAfter1 = table
    /\ upsLog = <<>>
    /\ deletes = 0
    /\ inserts = 0

UpsIdle ==
    /\ table = EmptyTable
    /\ df = <<>>
    /\ tableBefore = EmptyTable
    /\ tableAfter1 = EmptyTable
    /\ upsLog = <<>>
    /\ deletes = 0
    /\ inserts = 0

(***************************************************************************)
(* The account pipeline: extract_account_data (dag, lines 44-67) around    *)
(* extract_meta_ads_data (graph_api.py:251-303).                           *)
(***************************************************************************)
\* The last answer ended the pagination: a network exception, or a non-200
\* status without the rate-limit signature.
FatalAnswer(resp) ==
    \/ resp = NetworkError
    \/ resp.status \notin {0, 200} /\ resp.text \notin RateLimitTexts

\* The APIs of the pipeline: page u links to page u + 1 or ends the chain.
ExtractServers ==
    {s \in Servers :
        \A u \in Urls : s[u].next \in {NoUrl, u + 1} \cap (Urls \cup {NoUrl})}
ExtractTables == {EmptyTable, [r \in Rows |-> 1]}

\* Item k of the insights API is the row of ad k for day k in campaign k,
\* and item 2 carries one action; item k of the campaigns API is campaign k,
\* whose status is ACTIVE.
ActiveStatus == 1
NullStatus == 2
InsightActions(item) == IF item = 2 THEN <<1>> ELSE <<>>

RECURSIVE MatchingCampaigns(_, _)
\* The campaigns rows whose campaign_id is cid, in order.
MatchingCampaigns(cs, cid) ==
    IF cs = <<>> THEN <<>>
    ELSE (IF Head(cs) = cid THEN <<Head(cs)>> ELSE <<>>)
         \o MatchingCampaigns(Tail(cs), cid)

RECURSIVE MergeLeft(_, _)
\* graph_api.py:235-239: df_adset.merge(df_campaigns[...], how='left')
MergeLeft(ins, cs) ==
    IF ins = <<>> THEN <<>>
    ELSE LET m == MatchingCampaigns(cs, Head(ins))
             rows == IF m = <<>>
                     THEN <<[date |-> Head(ins), val |-> NullStatus]>>
                     ELSE [i \in 1..Len(m) |->
                              [date |-> Head(ins), val |-> ActiveStatus]]
         IN rows \o MergeLeft(Tail(ins), cs)

RECURSIVE ActionRows(_)
\* graph_api.py:208-215
ActionRows(ins) ==
    IF ins = <<>> THEN <<>>
    ELSE LET acts == InsightActions(Head(ins))
         IN [i \in 1..Len(acts) |-> [date |-> Head(ins), val |-> acts[i]]]
            \o ActionRows(Tail(ins))

\* graph_api.py:184-248.  A DataFrame built from an empty list has no
\* columns: selecting ['campaign_id', 'campaign_status'] from it (line 236)
\* and merging it on 'campaign_id' (line 237) raise KeyError.
ProcessInsightsData(ins, cs) ==
    IF cs = <<>> \/ ins = <<>>
    THEN [raised |-> TRUE, ads |-> <<>>, actions |-> <<>>]
    ELSE [raised |-> FALSE, ads |-> MergeLeft(ins, cs),
          actions |-> ActionRows(ins)]

\* A fresh call of paginate_api against the API srv (lines 72-74).
StartPagination(srv) ==
    /\ pc' = "loop"
    /\ next_url' = url
    /\ all_data' = <<>>
    /\ page_count' = 1
    /\ server' = srv
    /\ requests' = 0
    /\ reqs' = [u \in Urls |-> 0]
    /\ rls' = [u \in Urls |-> 0]
    /\ lastReq' = [url |-> NoUrl, params |-> FALSE]
    /\ lastResp' = NoResp
    /\ fetched' = <<>>
    /\ UNCHANGED budget

\* paginate_api returned and no further call follows: its locals are gone.
EndPagination ==
    /\ pc' = "idle"
    /\ next_url' = NoUrl
    /\ all_data' = <<>>
    /\ page_count' = 1
    /\ server' = [u \in Urls |-> [data |-> <<>>, next |-> NoUrl]]
    /\ budget' = 0
    /\ requests' = 0
    /\ reqs' = [u \in Urls |-> 0]
    /\ rls' = [u \in Urls |-> 0]
    /\ lastReq' = [url |-> NoUrl, params |-> FALSE]
    /\ lastResp' = NoResp
    /\ fetched' = <<>>

\* graph_api.py:279: client.get_insights() returned.
InsightsReturn ==
    /\ step = "insights" /\ pc = "returned"
    /\ insights' = all_data
    /\ fatalSeen' = (fatalSeen \/ FatalAnswer(lastResp))
    /\ step' = "campaigns"
    /\ extLog' = Append(extLog, "insights")
    /\ \E srv \in ExtractServers : StartPagination(srv)
    /\ UNCHANGED <<campaigns, df_ads, df_actions, actTable, disposed, raisedAt>>
    /\ UNCHANGED <<upsVars, syncVars, dagVars>>

\* graph_api.py:282: client.get_campaigns() returned.
CampaignsReturn ==
    /\ step = "campaigns" /\ pc = "returned"
    /\ campaigns' = all_data
    /\ fatalSeen' = (fatalSeen \/ FatalAnswer(lastResp))
    /\ step' = "transform"
    /\ extLog' = Append(extLog, "campaigns")
    /\ EndPagination
    /\ UNCHANGED <<insights, df_ads, df_actions, actTable, disposed, raisedAt>>
    /\ UNCHANGED <<upsVars, syncVars, dagVars>>

FinallyOnSuccess(raised) == IF raised THEN 0 ELSE 1
\* dag, lines 57-67 and 89-98: try ... finally: db_manager.dispose(): the
\* calls of dispose when the work returned or raised.
Finally(raised) == 1

StepSwallows(raised, following) == following
\* graph_api.py:289-299: no try: an exception of a step leaves
\* extract_meta_ads_data, otherwise the following step is next.
StepEnds(raised, following) == IF raised THEN "raising" ELSE following

\* graph_api.py:288-291
Transform ==
    /\ step = "transform"
    /\ LET r == ProcessInsightsData(insights, campaigns) IN
        /\ df_ads' = r.ads
        /\ df_actions' = r.actions
        /\ step' = StepEnds(r.raised, "upsert_ads")
        /\ raisedAt' = IF r.raised THEN "transform" ELSE raisedAt
    /\ extLog' = Append(extLog, "transform")
    /\ UNCHANGED <<insights, campaigns, actTable, fatalSeen, disposed>>
    /\ UNCHANGED <<pagVars, upsVars, syncVars, dagVars>>

\* graph_api.py:298
UpsertAds ==
    /\ step = "upsert_ads"
    /\ \E db \in DbOutcomes :
        LET r == UpsertDataframe(table, df_ads, db) IN
            /\ table' = r.table
            /\ deletes' = deletes + r.deletes
            /\ inserts' = inserts + r.inserts
            /\ step' = StepEnds(r.raised, "upsert_actions")
            /\ raisedAt' = IF r.raised THEN "upsert_ads" ELSE raisedAt
    /\ extLog' = Append(extLog, "upsert_ads")
    /\ UNCHANGED <<df, tableBefore, tableAfter1, upsLog>>
    /\ UNCHANGED <<insights, campaigns, df_ads, df_actions, actTable,
                   fatalSeen, disposed>>
    /\ UNCHANGED <<pagVars, syncVars, dagVars>>

\* graph_api.py:299
UpsertActions ==
    /\ step = "upsert_actions"
    /\ \E db \in DbOutcomes :
        LET r == UpsertDataframe(actTable, df_actions, db) IN
            /\ actTable' = r.table
            /\ deletes' = deletes + r.deletes
            /\ inserts' = inserts + r.inserts
            /\ step' = StepEnds(r.raised, "completed")
            /\ raisedAt' = IF r.raised THEN "upsert_actions" ELSE raisedAt
    /\ extLog' = Append(extLog, "upsert_actions")
    /\ UNCHANGED <<table, df, tableBefore, tableAfter1, upsLog>>
    /\ UNCHANGED <<insights, campaigns, df_ads, df_actions, fatalSeen, disposed>>
    /\ UNCHANGED <<pagVars, syncVars, dagVars>>

\* dag, lines 66-67: the finally clause, then the task ends: it succeeds
\* when extract_meta_ads_data returned and fails when it raised.
Dispose ==
    /\ step \in {"completed", "raising"}
    /\ disposed' = disposed + Finally(step = "raising")
    /\ step' = IF step = "completed" THEN "success" ELSE "failed"
    /\ extLog' = Append(extLog, "dispose")
    /\ UNCHANGED <<insights, campaigns, df_ads, df_actions, actTable, fatalSeen,
                   raisedAt>>
    /\ UNCHANGED <<pagVars, upsVars, syncVars, dagVars>>

\* dag, lines 54-58, and graph_api.py:275-279: the first paginate_api call.
ExtInit ==
    /\ step = "insights"
    /\ insights = <<>>
    /\ campaigns = <<>>
    /\ df_ads = <<>>
    /\ df_actions = <<>>
    /\ actTable \in ExtractTables
    /\ fatalSeen = FALSE
    /\ disposed = 0
    /\ extLog = <<>>
    /\ raisedAt = ""

ExtIdle ==
    /\ step = "idle"
    /\ insights = <<>>
    /\ campaigns = <<>>
    /\ df_ads = <<>>
    /\ df_actions = <<>>
    /\ actTable = EmptyTable
    /\ fatalSeen = FALSE
    /\ disposed = 0
    /\ extLog = <<>>
    /\ raisedAt = ""

(***************************************************************************)
(* DatabaseManager.sync_postgres_to_sqlserver, database.py:132-213.  The   *)
(* date cell of a source row is a timestamp counted in half days; the      *)
(* target's date column holds calendar days.                               *)
(***************************************************************************)
SyncDays == 0..MaxSyncDay
Stamps == 0..(2 * MaxSyncDay + 1)
\* The day the first run starts on: one later day exists.
Today == MaxSyncDay - 1
\* The values of the argument days (default 15), chunksize (default 1000)
\* and max_threads (default 8) the model calls the sync with.
DaysArgs == {1, 2}
ChunkSizes == {1, 2}
ThreadCounts == {1, 2}
SyncArgSets == [days : DaysArgs, chunksize : ChunkSizes, max_threads : ThreadCounts]

\* The view's rows, as the non-decreasing sequences of their date cells.
Sources ==
    {q \in SeqsUpTo(Stamps, MaxSourceRows) :
        \A i \in 1..(Len(q) - 1) : q[i] <= q[i + 1]}
EmptyTarget == [d \in SyncDays |-> 0]
Targets == {EmptyTarget, [d \in SyncDays |-> 1]}

\* line 162: (datetime.now() - timedelta(days=days)).date()
StartDate(today, days) == today - days

\* The timestamp of midnight of a day.
Midnight(day) == 2 * day
\* line 177: pd.to_datetime(df[date_column]).dt.date
ToDate(stamp) == stamp \div 2

RECURSIVE SelectSince(_, _)
\* lines 163-168: SELECT * FROM view WHERE date >= 'start_date'
SelectSince(rows, since) ==
    IF rows = <<>> THEN <<>>
    ELSE (IF Head(rows) >= Midnight(since) THEN <<Head(rows)>> ELSE <<>>)
         \o SelectSince(Tail(rows), since)

\* lines 176-181: the frame after preprocessing, date coercion and the
\* projection on the target's columns, which keep every row.
Coerce(frame) == [i \in 1..Len(frame) |-> ToDate(frame[i])]

\* lines 185-192: DELETE ... WHERE date BETWEEN :start AND :end
SyncDeleteBetween(t, lo, hi) ==
    [d \in SyncDays |-> IF lo <= d /\ d <= hi THEN 0 ELSE t[d]]

\* line 196: the number of chunks, and chunk k (df.iloc[i:i+chunksize]).
ChunkCount(frame, size) == (Len(frame) + size - 1) \div size
Chunk(frame, size, k) ==
    SubSeq(frame, (k - 1) * size + 1,
           IF k * size < Len(frame) THEN k * size ELSE Len(frame))

RECURSIVE AppendRows(_, _)
\* lines 200-206: chunk.to_sql(..., if_exists='append')
AppendRows(t, rows) ==
    IF rows = <<>> THEN t
    ELSE AppendRows([t EXCEPT ![Head(rows)] = @ + 1], Tail(rows))

Running == {k \in DOMAIN chunkState : chunkState[k] = "running"}
Queued == {k \in DOMAIN chunkState : chunkState[k] = "queued"}

\* line 136: date_column = 'date'
date_column == "date"
ColumnNames == {date_column, "a", "b"}
Range(q) == {q[i] : i \in DOMAIN q}
\* The column lists a view or a table can have: a column, no name twice.
ColumnLists ==
    {q \in SeqsUpTo(ColumnNames, Cardinality(ColumnNames)) :
        q # <<>> /\ \A i, j \in DOMAIN q : q[i] = q[j] => i = j}
\* The columns of a view and a table that agree.
SameColumns == <<date_column, "a">>

ProjectTargetOrder(cols, sql_columns) ==
    SelectSeq(sql_columns, LAMBDA col : col \in Range(cols))
\* line 181: df[[col for col in df.columns if col in sql_columns]]
Project(cols, sql_columns) ==
    SelectSeq(cols, LAMBDA col : col \in Range(sql_columns))

SyncDfEmptyMutant(frame) == FALSE
\* line 171: if df.empty
SyncDfEmpty(frame) == frame = <<>>

\* lines 161-173: compute start_date, read the view, return when it is empty.
SyncRead ==
    /\ syncPc = "start"
    /\ start_date' = StartDate(now, syncArgs.days)
    /\ \E readOk \in BOOLEAN :
        IF ~readOk \/ date_column \notin Range(sourceColumns)
        THEN /\ syncPc' = "raised"
             /\ syncError' = IF date_column \notin Range(sourceColumns)
                              THEN "source_column" ELSE "db"
             /\ sdf' = <<>>
             /\ UNCHANGED <<cleanRuns, df_columns>>
        ELSE LET frame == SelectSince(source, start_date') IN
             /\ sdf' = Coerce(frame)
             /\ df_columns' = sourceColumns
             /\ UNCHANGED syncError
             /\ syncPc' = IF SyncDfEmpty(frame) THEN "returned" ELSE "read"
             /\ cleanRuns' = IF SyncDfEmpty(frame) THEN cleanRuns \cup {syncRun}
                             ELSE cleanRuns
    /\ UNCHANGED <<now, source, target, syncArgs, syncRun, end_date, chunkState,
                   inserted, targetAfter1, sourceColumns, targetColumns>>
    /\ UNCHANGED <<mapping, syncDisposed>>
    /\ UNCHANGED <<pagVars, upsVars, extVars, dagVars>>

\* lines 180-196: read the target's columns, delete the window [start_date,
\* end_date] from the target, cut df into chunks and hand them to the pool.
SyncDelete ==
    /\ syncPc = "read"
    /\ end_date' = now
    /\ df_columns' = Project(df_columns, targetColumns)
    /\ \E deleteOk \in BOOLEAN :
        IF ~deleteOk \/ date_column \notin Range(targetColumns)
        THEN /\ syncPc' = "raised"
             /\ syncError' = IF date_column \notin Range(targetColumns)
                              THEN "target_column" ELSE "db"
             /\ UNCHANGED <<target, chunkState>>
        ELSE /\ target' = SyncDeleteBetween(target, start_date, end_date')
             /\ UNCHANGED syncError
             /\ chunkState' = [k \in 1..ChunkCount(sdf, syncArgs.chunksize) |-> "queued"]
             /\ syncPc' = "inserting"
    /\ UNCHANGED <<now, source, syncArgs, syncRun, sdf, start_date, inserted,
                   targetAfter1, cleanRuns, sourceColumns, targetColumns>>
    /\ UNCHANGED <<mapping, syncDisposed>>
    /\ UNCHANGED <<pagVars, upsVars, extVars, dagVars>>

UnboundedPool == TRUE
\* line 210: ThreadPoolExecutor(max_workers=max_threads): a worker is free.
FreeWorker == Cardinality(Running) < syncArgs.max_threads

\* line 210-211: a free worker of the pool takes the next chunk of the queue.
StartChunk ==
    /\ syncPc = "inserting"
    /\ Queued # {}
    /\ FreeWorker
    /\ LET k == CHOOSE k \in Queued : \A j \in Queued : k <= j
       IN chunkState' = [chunkState EXCEPT ![k] = "running"]
    /\ UNCHANGED <<now, source, target, syncArgs, syncPc, syncRun, sdf, start_date,
                   end_date, inserted, targetAfter1, cleanRuns,
                   sourceColumns, targetColumns, df_columns, syncError>>
    /\ UNCHANGED <<mapping, syncDisposed>>
    /\ UNCHANGED <<pagVars, upsVars, extVars, dagVars>>

InsertChunkRaises(p, insertOk) == IF insertOk THEN p ELSE "raised"
\* lines 199-208: the try/except of insert_chunk: where the sync stands after
\* the chunk's to_sql returned (insertOk) or raised and was caught.
InsertChunk(p, insertOk) == p

\* lines 198-208: insert_chunk ends; a failing to_sql is caught and logged.
FinishChunk ==
    /\ syncPc = "inserting"
    /\ \E k \in Running, insertOk \in BOOLEAN :
        LET rows == Chunk(sdf, syncArgs.chunksize, k) IN
        /\ chunkState' = [chunkState EXCEPT ![k] = IF insertOk THEN "ok" ELSE "failed"]
        /\ target' = IF insertOk THEN AppendRows(target, rows) ELSE target
        /\ inserted' = IF insertOk THEN inserted \o rows ELSE inserted
        /\ syncPc' = InsertChunk(syncPc, insertOk)
    /\ UNCHANGED <<now, source, syncArgs, syncRun, sdf, start_date,
                   end_date, targetAfter1, cleanRuns,
                   sourceColumns, targetColumns, df_columns, syncError>>
    /\ UNCHANGED <<mapping, syncDisposed>>
    /\ UNCHANGED <<pagVars, upsVars, extVars, dagVars>>

\* lines 210-213: the pool is joined and the sync returns.
SyncJoin ==
    /\ syncPc = "inserting"
    /\ \A k \in DOMAIN chunkState : chunkState[k] \in {"ok", "failed"}
    /\ syncPc' = "returned"
    /\ cleanRuns' = IF \A k \in DOMAIN chunkState : chunkState[k] = "ok"
                    THEN cleanRuns \cup {syncRun} ELSE cleanRuns
    /\ UNCHANGED <<now, source, target, syncArgs, syncRun, sdf, start_date,
                   end_date, chunkState, inserted, targetAfter1,
                   sourceColumns, targetColumns, df_columns, syncError>>
    /\ UNCHANGED <<mapping, syncDisposed>>
    /\ UNCHANGED <<pagVars, upsVars, extVars, dagVars>>

\* The sync is called again for the same view and table.
SyncAgain ==
    /\ syncPc \in {"returned", "raised"}
    /\ syncRun = 1
    /\ syncRun' = 2
    /\ syncPc' = "start"
    /\ targetAfter1' = target
    /\ sdf' = <<>>
    /\ chunkState' = <<>>
    /\ inserted' = <<>>
    /\ df_columns' = <<>>
    /\ syncError' = "none"
    /\ UNCHANGED <<now, source, target, syncArgs, start_date, end_date, cleanRuns,
                   sourceColumns, targetColumns>>
    /\ UNCHANGED <<mapping, syncDisposed>>
    /\ UNCHANGED <<pagVars, upsVars, extVars, dagVars>>

\* The calendar day changes.
DayChange ==
    /\ syncPc # "idle"
    /\ now < MaxSyncDay
    /\ now' = now + 1
    /\ UNCHANGED <<source, target, syncArgs, syncPc, syncRun, sdf, start_date,
                   end_date, chunkState, inserted, targetAfter1, cleanRuns,
                   sourceColumns, targetColumns, df_columns, syncError>>
    /\ UNCHANGED <<mapping, syncDisposed>>
    /\ UNCHANGED <<pagVars, upsVars, extVars, dagVars>>

\* dag, lines 84-87: the target tables of sync_mappings.
sync_mappings == <<"graph_ads", "graph_ads_actions">>
\* The views sync_to_sqlserver reads: at most one row each.
SyncTaskSources == {q \in Sources : Len(q) <= 1}

\* dag, line 90: the sync of one mapping returned and the loop goes on to
\* the next mapping, with its own view and table.
NextMapping ==
    /\ mapping \in 1..(Len(sync_mappings) - 1)
    /\ syncPc = "returned"
    /\ mapping' = mapping + 1
    /\ source' \in SyncTaskSources
    /\ target' \in Targets
    /\ targetAfter1' = target'
    /\ syncPc' = "start"
    /\ sdf' = <<>>
    /\ chunkState' = <<>>
    /\ inserted' = <<>>
    /\ df_columns' = <<>>
    /\ UNCHANGED <<now, syncArgs, syncRun, start_date, end_date, cleanRuns,
                   sourceColumns, targetColumns, syncError, syncDisposed>>
    /\ UNCHANGED <<pagVars, upsVars, extVars, dagVars>>

\* dag, lines 89-98: a sync raised or the last one returned: the finally
\* clause disposes the manager and the task ends.
SyncTaskDispose ==
    /\ mapping >= 1
    /\ \/ syncPc = "raised"
       \/ syncPc = "returned" /\ mapping = Len(sync_mappings)
    /\ syncDisposed' = syncDisposed + Finally(syncPc = "raised")
    /\ syncPc' = IF syncPc = "raised" THEN "task_failed" ELSE "task_success"
    /\ UNCHANGED <<now, source, target, syncArgs, syncRun, sdf, start_date,
                   end_date, chunkState, inserted, targetAfter1, cleanRuns,
                   sourceColumns, targetColumns, df_columns, syncError, mapping>>
    /\ UNCHANGED <<pagVars, upsVars, extVars, dagVars>>

\* The locals of a sync about to run.
SyncLocalsInit ==
    /\ syncPc = "start"
    /\ syncRun = 1
    /\ sdf = <<>>
    /\ start_date = 0
    /\ end_date = 0
    /\ chunkState = <<>>
    /\ inserted = <<>>
    /\ targetAfter1 = target
    /\ cleanRuns = {}
    /\ df_columns = <<>>
    /\ syncError = "none"
    /\ syncDisposed = 0

SyncInit ==
    /\ now = Today
    /\ source \in Sources
    /\ target \in Targets
    /\ syncArgs \in SyncArgSets
    /\ mapping = 0
    /\ sourceColumns = SameColumns
    /\ targetColumns = SameColumns
    /\ SyncLocalsInit

\* A sync with the default-like arguments over a view and a table whose
\* column lists are any two.
SyncColumnsInit ==
    /\ now = Today
    /\ source \in Sources
    /\ target \in Targets
    /\ syncArgs = [days |-> 2, chunksize |-> 1, max_threads |-> 2]
    /\ sourceColumns \in ColumnLists
    /\ targetColumns \in ColumnLists
    /\ mapping = 0
    /\ SyncLocalsInit

\* dag, lines 80-91: sync_to_sqlserver calls the sync of the first mapping
\* with the default arguments.
SyncTaskInit ==
    /\ now = Today
    /\ source \in SyncTaskSources
    /\ target \in Targets
    /\ syncArgs = [days |-> 2, chunksize |-> 1, max_threads |-> 2]
    /\ sourceColumns = SameColumns
    /\ targetColumns = SameColumns
    /\ mapping = 1
    /\ SyncLocalsInit

SyncIdle ==
    /\ now = Today
    /\ source = <<>>
    /\ target = EmptyTarget
    /\ syncArgs = [days |-> 1, chunksize |-> 1, max_threads |-> 1]
    /\ syncPc = "idle"
    /\ syncRun = 1
    /\ sdf = <<>>
    /\ start_date = 0
    /\ end_date = 0
    /\ chunkState = <<>>
    /\ inserted = <<>>
    /\ targetAfter1 = EmptyTarget
    /\ cleanRuns = {}
    /\ sourceColumns = <<>>
    /\ targetColumns = <<>>
    /\ df_columns = <<>>
    /\ syncError = "none"
    /\ mapping = 0
    /\ syncDisposed = 0

(***************************************************************************)
(* AccountsConfig, config/accounts_config.py, and the DAG built and run    *)
(* by dags/meta_graph_api_pipeline.py.  A token entry is a string, "" when *)
(* nothing stands between two commas; an account item is the sequence of   *)
(* its colon-separated fields, <<>> when nothing stands between two commas.*)
(***************************************************************************)
\* line 35: RETRIES = int(os.getenv('AIRFLOW_RETRIES', '2'))
RETRIES == 2
\* line 130: split_accounts_into_groups(num_groups=2)
num_groups == 2

\* An entry or a field with nothing in it, as in "123:" or "t1,,t2".
Blank == 0
\* The entries position k of GRAPH_API_TOKENS can hold: token k, or nothing.
TokenEntriesAt(k) == {k, Blank}
EnvTokens ==
    UNION {{q \in [1..n -> 0..MaxTokens] :
               \A k \in 1..n : q[k] \in TokenEntriesAt(k)} : n \in 0..MaxTokens}
\* dag, line 62: f"{table_name}_actions".  Table names are numbers: the
\* names 0..MaxAccounts carry no suffix, and appending the suffix to the
\* name n gives the name n + MaxAccounts + 1.
ActionsTable(table_name) == table_name + MaxAccounts + 1
\* The items position i of META_ACCOUNTS can hold: a new account, an account
\* with the first one's id, one with the first one's table, one whose table
\* is named as the first one's with "_actions" appended, an account with a
\* blank table name, an item without a colon, and nothing.
ItemsAt(i) ==
    {<<i, i>>, <<1, i>>, <<i, 1>>, <<i, ActionsTable(1)>>, <<i, Blank>>, <<i>>, <<>>}
EnvAccounts ==
    UNION {{q \in [1..n -> UNION {ItemsAt(i) : i \in 1..MaxAccounts}] :
               \A i \in 1..n : q[i] \in ItemsAt(i)} : n \in 0..MaxAccounts}

\* lines 23-24: the entries that are not blank.
LoadTokens(entries) == SelectSeq(entries, LAMBDA token : token # Blank)

RECURSIVE LoadAccountsFrom(_, _)
\* lines 55-70: the loop over the items; a blank item is skipped, an item
\* that does not split in two raises.
LoadAccountsFrom(items, acc) ==
    IF items = <<>> THEN [raised |-> FALSE, accounts |-> acc]
    ELSE LET item == Head(items) IN
         IF item = <<>> THEN LoadAccountsFrom(Tail(items), acc)
         ELSE IF Len(item) # 2 THEN [raised |-> TRUE, accounts |-> <<>>]
         ELSE LoadAccountsFrom(Tail(items),
                  Append(acc, [account_id |-> item[1], table |-> item[2]]))

\* lines 34-75: _load_accounts
LoadAccounts(items) ==
    IF items = <<>> THEN [raised |-> TRUE, accounts |-> <<>>]
    ELSE LET r == LoadAccountsFrom(items, <<>>) IN
         IF r.raised \/ r.accounts = <<>>
         THEN [raised |-> TRUE, accounts |-> <<>>]
         ELSE r

\* lines 8-11 and 26-30: __init__ loads the tokens, then the accounts.
LoadConfig(entries, items) ==
    LET toks == LoadTokens(entries) IN
    IF toks = <<>> THEN [raised |-> TRUE, tokens |-> <<>>, accounts |-> <<>>]
    ELSE LET r == LoadAccounts(items) IN
         [raised |-> r.raised, tokens |-> toks, accounts |-> r.accounts]

NoDuplicates(q) == \A i, j \in DOMAIN q : q[i] = q[j] => i = j
ValidateSkipsTables(accts, toks) ==
    /\ accts # <<>>
    /\ toks # <<>>
    /\ NoDuplicates([i \in DOMAIN accts |-> accts[i].account_id])
\* lines 141-167: validate_configuration returns True (or raises).
ValidateConfiguration(accts, toks) ==
    /\ accts # <<>>
    /\ toks # <<>>
    /\ NoDuplicates([i \in DOMAIN accts |-> accts[i].account_id])
    /\ NoDuplicates([i \in DOMAIN accts |-> accts[i].table])

\* lines 114-131: split_accounts_into_groups
SplitAccountsIntoGroups(accts, n) ==
    LET total_accounts == Len(accts)
        accounts_per_group == (total_accounts + n - 1) \div n
        count == (total_accounts + accounts_per_group - 1) \div accounts_per_group
    IN [k \in 1..count |->
           SubSeq(accts, (k - 1) * accounts_per_group + 1,
                  IF k * accounts_per_group < total_accounts
                  THEN k * accounts_per_group ELSE total_accounts)]

\* line 145: accounts.index(account), counted from 0.
IndexOf(accts, account) ==
    (CHOOSE i \in DOMAIN accts :
        accts[i] = account /\ \A j \in DOMAIN accts : accts[j] = account => i <= j) - 1

\* lines 92-99: get_account_with_token, account_index counted from 0.
GetAccountWithToken(accts, toks, account_index) ==
    IF account_index >= Len(accts)
    THEN [raised |-> TRUE, account |-> <<>>, token |-> Blank]
    ELSE [raised |-> FALSE,
          account |-> accts[account_index + 1],
          token |-> toks[(account_index % Len(toks)) + 1]]

RECURSIVE Flatten(_)
Flatten(qs) == IF qs = <<>> THEN <<>> ELSE Head(qs) \o Flatten(Tail(qs))

TokenByPlaceInGroup(accts, toks, place, account) ==
    GetAccountWithToken(accts, toks, place - 1).token
\* lines 145-146: the token of the account that stands at place in its group.
TokenFor(accts, toks, place, account) ==
    GetAccountWithToken(accts, toks, IndexOf(accts, account)).token

\* lines 135-160: one extraction task per account of every group.
BuildTasks(accts, toks) ==
    LET account_groups == SplitAccountsIntoGroups(accts, num_groups) IN
    Flatten([g \in DOMAIN account_groups |->
                [k \in DOMAIN account_groups[g] |->
                    [account_id |-> account_groups[g][k].account_id,
                     table |-> account_groups[g][k].table,
                     actions_table |-> ActionsTable(account_groups[g][k].table),
                     token |-> TokenFor(accts, toks, k, account_groups[g][k]),
                     group |-> g]]])

Done == {"success", "failed"}
AllSuccess(states) == states \subseteq {"success"}
\* lines 157 and 166: TriggerRule.ALL_DONE
TriggerRule(states) == states \subseteq Done

LastGroup == IF tasks = <<>> THEN 0 ELSE tasks[Len(tasks)].group
\* lines 171-173: task_groups[i] >> task_groups[i + 1]
Upstream(i) == {j \in DOMAIN tasks : tasks[j].group = tasks[i].group - 1}
SyncUpstreamFirstGroup == {j \in DOMAIN tasks : tasks[j].group = 1}
\* line 175: task_groups[-1] >> sync_task
SyncUpstream == {j \in DOMAIN tasks : tasks[j].group = LastGroup}

\* lines 125-175: the DAG file is parsed: the configuration is loaded and
\* validated, the groups and their tasks are created.
DagParse ==
    /\ dagPc = "load"
    /\ LET c == LoadConfig(envTokens, envAccounts) IN
       IF c.raised \/ ~ValidateConfiguration(c.accounts, c.tokens)
       THEN /\ dagPc' = "config_error"
            /\ tokens' = c.tokens
            /\ accounts' = c.accounts
            /\ tasks' = <<>>
            /\ UNCHANGED <<taskState, taskTries>>
       ELSE /\ dagPc' = "parsed"
            /\ tokens' = c.tokens
            /\ accounts' = c.accounts
            /\ tasks' = BuildTasks(c.accounts, c.tokens)
            /\ taskState' = [i \in DOMAIN tasks' |-> "none"]
            /\ taskTries' = [i \in DOMAIN tasks' |-> 0]
    /\ UNCHANGED <<envTokens, envAccounts, syncTask, apiCalls>>
    /\ UNCHANGED <<pagVars, upsVars, extVars, syncVars>>

\* lines 149-158: an extraction task starts an attempt once its trigger rule
\* holds of the tasks upstream; extract_account_data calls the API with the
\* task's token.
TaskStart ==
    /\ dagPc = "parsed"
    /\ \E i \in DOMAIN tasks :
        /\ taskState[i] \in {"none", "up_for_retry"}
        /\ TriggerRule({taskState[j] : j \in Upstream(i)})
        /\ taskState' = [taskState EXCEPT ![i] = "running"]
        /\ taskTries' = [taskTries EXCEPT ![i] = @ + 1]
        /\ apiCalls' = apiCalls \cup {<<tasks[i].account_id, tasks[i].token>>}
    /\ UNCHANGED <<envTokens, envAccounts, dagPc, tokens, accounts, tasks, syncTask>>
    /\ UNCHANGED <<pagVars, upsVars, extVars, syncVars>>

\* The state of a task whose attempt ended: lines 105-108, retries.
AfterAttempt(ok, tries) ==
    IF ok THEN "success" ELSE IF tries <= RETRIES THEN "up_for_retry" ELSE "failed"

\* lines 44-67: extract_account_data returns or raises.
TaskEnd ==
    /\ dagPc = "parsed"
    /\ \E i \in DOMAIN tasks, ok \in BOOLEAN :
        /\ taskState[i] = "running"
        /\ taskState' = [taskState EXCEPT ![i] = AfterAttempt(ok, taskTries[i])]
    /\ UNCHANGED <<envTokens, envAccounts, dagPc, tokens, accounts, tasks,
                   taskTries, syncTask, apiCalls>>
    /\ UNCHANGED <<pagVars, upsVars, extVars, syncVars>>

\* lines 163-167 and 175: the sync task starts an attempt.
SyncTaskStart ==
    /\ dagPc = "parsed"
    /\ syncTask.state \in {"none", "up_for_retry"}
    /\ TriggerRule({taskState[j] : j \in SyncUpstream})
    /\ syncTask' = [state |-> "running", tries |-> syncTask.tries + 1]
    /\ UNCHANGED <<envTokens, envAccounts, dagPc, tokens, accounts, tasks,
                   taskState, taskTries, apiCalls>>
    /\ UNCHANGED <<pagVars, upsVars, extVars, syncVars>>

\* lines 70-98: sync_to_sqlserver returns or raises.
SyncTaskEnd ==
    /\ dagPc = "parsed"
    /\ syncTask.state = "running"
    /\ \E ok \in BOOLEAN :
        syncTask' = [syncTask EXCEPT !.state = AfterAttempt(ok, syncTask.tries)]
    /\ UNCHANGED <<envTokens, envAccounts, dagPc, tokens, accounts, tasks,
                   taskState, taskTries, apiCalls>>
    /\ UNCHANGED <<pagVars, upsVars, extVars, syncVars>>

DagLocalsInit ==
    /\ tokens = <<>>
    /\ accounts = <<>>
    /\ tasks = <<>>
    /\ taskState = <<>>
    /\ taskTries = <<>>
    /\ syncTask = [state |-> "none", tries |-> 0]
    /\ apiCalls = {}

DagInit ==
    /\ envTokens \in EnvTokens
    /\ envAccounts \in EnvAccounts
    /\ dagPc = "load"
    /\ DagLocalsInit

\* A DAG file parsed with two tokens and any account list.
DagRunInit ==
    /\ envTokens = <<1, 2>>
    /\ envAccounts \in EnvAccounts
    /\ dagPc = "load"
    /\ DagLocalsInit

DagIdle ==
    /\ envTokens = <<>>
    /\ envAccounts = <<>>
    /\ dagPc = "idle"
    /\ DagLocalsInit

(***************************************************************************)
(* The specifications.                                                     *)
(***************************************************************************)
Init == PagInit /\ UpsIdle /\ ExtIdle /\ SyncIdle /\ DagIdle
Next == Success \/ ErrorStatus \/ RequestException

Spec == Init /\ [][Next]_vars
\* The loop is sequential code: a request returns or times out (line 83) and
\* the sleep of line 92 ends, so an enabled iteration is eventually taken.
FairSpec == Init /\ [][Next]_vars /\ WF_vars(Next)

UpsertInit == PagIdle /\ UpsInit /\ ExtIdle /\ SyncIdle /\ DagIdle
UpsertNext == FirstUpsert \/ SecondUpsert
SpecUpsert == UpsertInit /\ [][UpsertNext]_vars

ExtractInit ==
    /\ PagInit /\ server \in ExtractServers /\ budget <= 1
    /\ ExtInit
    /\ table = actTable
    /\ df = <<>>
    /\ tableBefore = table
    /\ tableAfter1 = table
    /\ upsLog = <<>>
    /\ deletes = 0
    /\ inserts = 0
    /\ SyncIdle
    /\ DagIdle
ExtractNext ==
    \/ Success \/ ErrorStatus \/ RequestException
    \/ InsightsReturn \/ CampaignsReturn \/ Transform
    \/ UpsertAds \/ UpsertActions \/ Dispose
SpecExtract == ExtractInit /\ [][ExtractNext]_vars

SyncSpecInit == PagIdle /\ UpsIdle /\ ExtIdle /\ SyncInit /\ DagIdle
SyncNext ==
    \/ SyncRead \/ SyncDelete \/ StartChunk \/ FinishChunk \/ SyncJoin
    \/ SyncAgain \/ DayChange
SpecSync == SyncSpecInit /\ [][SyncNext]_vars

ColumnsSpecInit == PagIdle /\ UpsIdle /\ ExtIdle /\ SyncColumnsInit /\ DagIdle
ColumnsNext ==
    \/ SyncRead \/ SyncDelete \/ StartChunk \/ FinishChunk \/ SyncJoin
SpecColumns == ColumnsSpecInit /\ [][ColumnsNext]_vars

\* One job of the DAG: the extraction of an account, or the sync task.
SyncTaskSpecInit == PagIdle /\ UpsIdle /\ ExtIdle /\ SyncTaskInit /\ DagIdle
SyncTaskNext ==
    \/ SyncRead \/ SyncDelete \/ StartChunk \/ FinishChunk \/ SyncJoin
    \/ NextMapping \/ SyncTaskDispose
JobsInit == ExtractInit \/ SyncTaskSpecInit
JobsNext == ExtractNext \/ SyncTaskNext
SpecJobs == JobsInit /\ [][JobsNext]_vars

DagSpecInit == PagIdle /\ UpsIdle /\ ExtIdle /\ SyncIdle /\ DagInit
DagNext == DagParse \/ TaskStart \/ TaskEnd \/ SyncTaskStart \/ SyncTaskEnd
SpecDag == DagSpecInit /\ [][DagNext]_vars
\* The scheduler runs every task whose trigger rule holds, and a running task
\* returns or raises: an enabled step of the run is eventually taken.
DagRunSpecInit == PagIdle /\ UpsIdle /\ ExtIdle /\ SyncIdle /\ DagRunInit
FairSpecDag == DagRunSpecInit /\ [][DagNext]_vars /\ WF_vars(DagNext)

(***************************************************************************)
(* The walk of the next-URLs from the initial URL.                         *)
(***************************************************************************)
RECURSIVE Walk(_, _, _)
\* The URLs visited from u, at most fuel of them.
Walk(srv, u, fuel) ==
    IF u = NoUrl \/ fuel = 0 THEN <<>>
    ELSE <<u>> \o Walk(srv, srv[u].next, fuel - 1)

RECURSIVE WalkEnd(_, _, _)
WalkEnd(srv, u, fuel) ==
    IF u = NoUrl \/ fuel = 0 THEN u ELSE WalkEnd(srv, srv[u].next, fuel - 1)

\* The server returns N pages with a paging.next and then one without.
ChainFinite == WalkEnd(server, url, MaxUrl) = NoUrl
Chain == Walk(server, url, MaxUrl)

IsPrefix(s, t) == Len(s) <= Len(t) /\ SubSeq(t, 1, Len(s)) = s
SeqSum(f) == LET RECURSIVE Sum(_)
                 Sum(S) == IF S = {} THEN 0
                           ELSE LET x == CHOOSE x \in S : TRUE
                                IN f[x] + Sum(S \ {x})
             IN Sum(DOMAIN f)

\* Every request so far was answered with status 200.
AllOk == Len(fetched) = requests
(* C1: when every request is answered with status 200 and the server's     *)
(* chain is N pages with a paging.next followed by one page without,       *)
(* paginate_api is still in its loop before the (N+1)th request, has       *)
(* returned exactly when N+1 requests were issued, and the accumulated     *)
(* items are the pages fetched so far concatenated in page order (the      *)
(* whole chain once it has returned).                                      *)
C1_PaginationExact ==
    (ChainFinite /\ AllOk) =>
        /\ pc \in {"loop", "returned"}
        /\ requests <= Len(Chain)
        /\ (pc = "returned") <=> (requests = Len(Chain))
        /\ fetched = SubSeq(Chain, 1, requests)
        /\ all_data = Concat(server, SubSeq(Chain, 1, requests))
        /\ pc = "returned" => all_data = Concat(server, Chain)

C1_Witness ==
    /\ ChainFinite /\ AllOk /\ pc = "returned"
    /\ requests = MaxUrl
    /\ Len(all_data) >= 3

(* C2: a rate-limited answer leaves next_url and all_data as they were and *)
(* keeps the loop running, the request after it goes to the same URL, and  *)
(* when the pagination of a finite chain ends on a success every page of   *)
(* the chain was requested once plus once per rate-limited answer to it    *)
(* and its items are in the result exactly once.                           *)
C2_RateLimitRetry ==
    /\ [][(requests' = requests + 1 /\ Throttled(lastResp')) =>
            /\ next_url' = next_url
            /\ all_data' = all_data
            /\ pc' = "loop"]_vars
    /\ [][(requests' = requests + 1 /\ Throttled(lastResp)) =>
            lastReq'.url = lastReq.url]_vars
    /\ []((ChainFinite /\ pc = "returned" /\ lastResp \in OkResps) =>
            /\ all_data = Concat(server, Chain)
            /\ \A i \in 1..Len(Chain) : reqs[Chain[i]] = 1 + rls[Chain[i]])

C2_Witness ==
    /\ ChainFinite /\ pc = "returned" /\ lastResp \in OkResps
    /\ \E u \in Urls : rls[u] = 1 /\ reqs[u] = 2 /\ server[u].data # <<>>
    /\ all_data = Concat(server, Chain)

(* C3: after a network exception or a non-200 answer without the           *)
(* rate-limit signature paginate_api has returned (it issues no further    *)
(* request and raised nothing) and its result is exactly the items of the  *)
(* pages read with status 200 before it.                                   *)
C3_FatalReturnsAccumulated ==
    FatalAnswer(lastResp) =>
        /\ pc = "returned"
        /\ all_data = Concat(server, fetched)
        /\ IsPrefix(fetched, Walk(server, url, MaxRequests))
        /\ requests = Len(fetched) + SeqSum(rls) + 1

C3_Witness ==
    /\ FatalAnswer(lastResp)
    /\ pc = "returned"
    /\ Len(fetched) >= 1
    /\ all_data # <<>>

(* C5: paginate_api never leaves its loop on a rate-limited answer, after  *)
(* any number of earlier rate-limited answers (there is no retry cap); and *)
(* when the rate-limited answers stop and the chain of next-URLs is        *)
(* finite, it eventually returns.                                          *)
C5_NoRetryCap ==
    /\ [](Throttled(lastResp) => pc = "loop" /\ lastReq.url = next_url)
    /\ (ChainFinite => <>(pc = "returned"))

C5_Witness ==
    /\ ChainFinite /\ pc = "returned"
    /\ \E u \in Urls : rls[u] = RateBudget /\ RateBudget >= 2

(***************************************************************************)
(* Claims about upsert_dataframe.                                          *)
(***************************************************************************)
DateSet(frame) == {frame[i].date : i \in 1..Len(frame)}
Lowest(S) == CHOOSE x \in S : \A y \in S : x <= y
Highest(S) == CHOOSE x \in S : \A y \in S : x >= y
Copies(frame, r) == Cardinality({i \in 1..Len(frame) : frame[i] = r})
InBatchWindow(r) ==
    Lowest(DateSet(df)) <= r.date /\ r.date <= Highest(DateSet(df))

(* C6: after a first call that returned normally on a non-empty DataFrame, *)
(* every row dated inside [minDate, maxDate] is in the table exactly as    *)
(* many times as it is in the batch, and every row dated outside has the   *)
(* number of copies it had before the call.                                *)
C6_WindowReplaced ==
    (upsLog = <<"returned">> /\ df # <<>>) =>
        \A r \in Rows :
            table[r] = IF InBatchWindow(r) THEN Copies(df, r) ELSE tableBefore[r]

C6_Witness ==
    /\ upsLog = <<"returned">> /\ Len(df) = MaxBatch
    /\ \E r \in Rows : InBatchWindow(r) /\ tableBefore[r] = 1 /\ table[r] = 0
    /\ \E r \in Rows : ~InBatchWindow(r) /\ tableBefore[r] = 1
    /\ \E r \in Rows : tableBefore[r] = 0 /\ table[r] = 1

(* C7: when two calls in sequence with the same DataFrame both return      *)
(* normally, the table after the second is the table after the first.      *)
C7_UpsertIdempotent ==
    upsLog = <<"returned", "returned">> => table = tableAfter1

C7_Witness ==
    /\ upsLog = <<"returned", "returned">>
    /\ Len(df) = MaxBatch
    /\ table = tableAfter1
    /\ table # tableBefore
    /\ inserts = 2

(* C8: a call with an empty DataFrame returns normally, executes no DELETE *)
(* and no insert, and leaves the table as it was.                          *)
C8_EmptyIsNoOp ==
    (df = <<>> /\ upsLog # <<>>) =>
        /\ table = tableBefore
        /\ deletes = 0
        /\ inserts = 0
        /\ \A i \in 1..Len(upsLog) : upsLog[i] = "returned"

C8_Witness ==
    /\ df = <<>> /\ upsLog = <<"returned">>
    /\ \E r \in Rows : table[r] = 1

(***************************************************************************)
(* Claims about the account pipeline.                                      *)
(***************************************************************************)
(* C4: when the insights or the campaigns pagination of the account was    *)
(* ended by a fatal answer, the account's task ends failed: it never ends  *)
(* as a success.                                                           *)
C4_FatalFailsAccount ==
    (step \in {"success", "failed"} /\ fatalSeen) => step = "failed"

\* process_insights_data was called.
Transformed == Len(extLog) >= 3 /\ extLog[3] = "transform"

(* C16: for a non-empty insights input and every campaigns input,          *)
(* process_insights_data raises nothing and returns one AdRecord per       *)
(* insight item, in input order, with the status of the campaign of the    *)
(* same campaign id, or a null status when no campaign matches.            *)
C16_OneAdRecordPerInsight ==
    (Transformed /\ insights # <<>>) =>
        /\ raisedAt # "transform"
        /\ Len(df_ads) = Len(insights)
        /\ \A i \in DOMAIN df_ads :
              /\ df_ads[i].date = insights[i]
              /\ df_ads[i].val =
                     IF \E k \in DOMAIN campaigns : campaigns[k] = insights[i]
                     THEN ActiveStatus ELSE NullStatus

(* C17: for an empty insights input (next to a campaigns input that is not *)
(* empty) process_insights_data raises nothing and returns an empty        *)
(* AdRecord set and an empty ActionRecord set, and the account pipeline    *)
(* goes on to its two upserts.                                             *)
C17_EmptyInsightsNoOp ==
    (Transformed /\ insights = <<>> /\ campaigns # <<>>) =>
        /\ raisedAt # "transform"
        /\ df_ads = <<>> /\ df_actions = <<>>
        /\ step \in {"success", "failed"} =>
              (Len(extLog) >= 5 /\ extLog[4] = "upsert_ads"
                 /\ extLog[5] = "upsert_actions")

PipelineOrder ==
    <<"insights", "campaigns", "transform", "upsert_ads", "upsert_actions">>
\* The steps of extract_meta_ads_data executed so far.
StepsRun == SelectSeq(extLog, LAMBDA s : s # "dispose")

(* C18: the steps of one account pipeline run in the order fetch insights, *)
(* fetch campaigns, transform, upsert ads, upsert actions: a step is under *)
(* way only when exactly the steps before it have been executed, and once  *)
(* a step has raised, that step is the last one executed: the only thing   *)
(* that follows is the dispose of the task's finally clause, which leaves  *)
(* both tables as they are.                                                *)
C18_StepsInOrder ==
    /\ [](IsPrefix(StepsRun, PipelineOrder))
    /\ [](\A k \in DOMAIN PipelineOrder :
            step = PipelineOrder[k] => extLog = SubSeq(PipelineOrder, 1, k - 1))
    /\ [](pc = "loop" => step \in {"insights", "campaigns"})
    /\ [](raisedAt # "" =>
            /\ StepsRun # <<>> /\ StepsRun[Len(StepsRun)] = raisedAt
            /\ step \in {"raising", "failed"})
    /\ [][step = "raising" =>
            /\ step' = "failed"
            /\ extLog' = Append(extLog, "dispose")
            /\ table' = table /\ actTable' = actTable]_vars
    /\ [](step = "success" => extLog = Append(PipelineOrder, "dispose"))

\* The ads upsert raised: the actions upsert never ran and the task failed.
C18_Witness ==
    /\ step = "failed"
    /\ raisedAt = "upsert_ads"
    /\ extLog = <<"insights", "campaigns", "transform", "upsert_ads", "dispose">>

(***************************************************************************)
(* Claims about the cross-store sync.                                      *)
(***************************************************************************)
(* C9: every row a run of the sync has inserted into the target is dated   *)
(* inside [start_date, end_date], the window the same run deleted.         *)
C9_DeleteCoversInserted ==
    syncPc \in {"inserting", "returned"} =>
        \A i \in 1..Len(inserted) :
            start_date <= inserted[i] /\ inserted[i] <= end_date

(* C10: when two runs in a row over the same source both return with no    *)
(* failed chunk insert, the target after the second run is the target      *)
(* after the first.                                                        *)
C10_SyncIdempotent ==
    (syncRun = 2 /\ syncPc = "returned" /\ cleanRuns = {1, 2}) =>
        target = targetAfter1

\* The rows of the chunks whose insert succeeded.
OkRowCount ==
    LET RECURSIVE Count(_)
        Count(k) == IF k = 0 THEN 0
                    ELSE Count(k - 1) +
                         (IF chunkState[k] = "ok"
                          THEN Len(Chunk(sdf, syncArgs.chunksize, k)) ELSE 0)
    IN Count(Len(chunkState))

(* C11: a failing chunk insert is caught per chunk.  Once the chunks are   *)
(* handed to the pool the sync never raises; the step in which a chunk's   *)
(* insert fails changes no other chunk and leaves the sync inserting; and  *)
(* the sync returns only after every chunk was attempted, with the target  *)
(* holding, on top of what the delete left, the rows of the chunks that    *)
(* succeeded and none of the failed ones.                                  *)
C11_ChunkFailureCaught ==
    /\ [][syncPc = "inserting" => syncPc' \in {"inserting", "returned"}]_vars
    /\ [][\A k \in DOMAIN chunkState :
            (syncPc = "inserting" /\ chunkState[k] = "running"
                 /\ k \in DOMAIN chunkState' /\ chunkState'[k] = "failed") =>
                /\ syncPc' = "inserting"
                /\ target' = target
                /\ \A j \in DOMAIN chunkState \ {k} :
                       chunkState'[j] = chunkState[j]]_vars
    /\ [](syncPc = "returned" /\ sdf # <<>> =>
            /\ \A k \in DOMAIN chunkState : chunkState[k] \in {"ok", "failed"}
            /\ Len(chunkState) = ChunkCount(sdf, syncArgs.chunksize)
            /\ Len(inserted) = OkRowCount
            /\ target = AppendRows(
                   SyncDeleteBetween(targetAfter1, start_date, end_date),
                   inserted))

\* The sync returned normally after its first chunk failed and its second
\* succeeded: the target holds a strict subset of the rows read.
C11_Witness ==
    /\ syncPc = "returned"
    /\ Len(chunkState) = 2
    /\ chunkState[1] = "failed" /\ chunkState[2] = "ok"
    /\ Len(inserted) < Len(sdf)
    /\ inserted # <<>>

(* C12: when the read returns no rows the sync returns with the target as  *)
(* it was when the run started: the step from the read to the return       *)
(* changes neither the target nor the chunk list, and nothing was          *)
(* inserted.                                                               *)
C12_EmptyReadNoOp ==
    /\ [][(syncPc = "start" /\ syncPc' = "returned") =>
            (sdf' = <<>> /\ target' = target)]_vars
    /\ [](syncPc = "returned" /\ sdf = <<>> =>
            target = targetAfter1 /\ inserted = <<>> /\ chunkState = <<>>)

\* An empty read on a target that holds rows inside the window.
C12_Witness ==
    /\ syncPc = "returned" /\ sdf = <<>>
    /\ target # EmptyTarget
    /\ source # <<>>

\* q lists distinct columns of cols in the order cols lists them.
InSourceOrder(q, cols) ==
    \A i, j \in DOMAIN q :
        i < j => \E m, n \in DOMAIN cols : m < n /\ cols[m] = q[i] /\ cols[n] = q[j]

\* The frame handed to the chunk inserts has exactly the columns the view
\* and the table share, in the view's order.
WritesIntersection ==
    (syncPc \in {"inserting", "returned"} /\ sdf # <<>>) =>
        /\ Range(df_columns) = Range(sourceColumns) \cap Range(targetColumns)
        /\ Len(df_columns) = Cardinality(Range(df_columns))
        /\ InSourceOrder(df_columns, sourceColumns)

(* C13, as claimed: for every column list of the view and every column     *)
(* list of the table, the sync never raises because a column of the view   *)
(* is absent in the table, and it writes exactly the shared columns in the *)
(* view's order.                                                           *)
C13_AnyColumnsNoRaise ==
    syncError # "target_column" /\ WritesIntersection

(* C13, amended: when the table has the date column, the sync never raises *)
(* because of a column of the view absent in the table, and it writes      *)
(* exactly the shared columns in the view's order.                         *)
C13_ColumnsIntersection ==
    date_column \in Range(targetColumns) =>
        (syncError # "target_column" /\ WritesIntersection)

\* The view has a column the table lacks, the table one the view lacks, and
\* the shared columns stand in another order in the table; the sync returned
\* having inserted rows.
C13_Witness ==
    /\ sourceColumns = <<"b", date_column>>
    /\ targetColumns = <<date_column, "a">>
    /\ syncPc = "returned"
    /\ inserted # <<>>
    /\ df_columns = <<date_column>>

(***************************************************************************)
(* Claims about the DAG and its configuration.                             *)
(***************************************************************************)
AllExtractionsDone == \A i \in DOMAIN tasks : taskState[i] \in Done

(* C14: the sync task has started only when every extraction task of every *)
(* group has finished, in success or in failure, and in every run of a     *)
(* parsed DAG it does start, whichever extraction tasks failed.            *)
C14_SyncAfterAllExtractions ==
    /\ [](syncTask.state # "none" => AllExtractionsDone)
    /\ [][syncTask.state # "none" => taskState' = taskState]_vars
    /\ (dagPc = "parsed" ~> syncTask.state # "none")

\* The sync runs after a task of each group failed and another succeeded.
C14_Witness ==
    /\ syncTask.state = "running"
    /\ Len(tasks) = 3
    /\ taskState = <<"failed", "success", "failed">>

\* The tasks that extract the account at place i of accounts.
TasksOf(i) ==
    {j \in DOMAIN tasks :
        tasks[j].account_id = accounts[i].account_id /\ tasks[j].table = accounts[i].table}

(* C15: in a parsed DAG every configured account has exactly one           *)
(* extraction task, which stands in exactly one group, the groups are      *)
(* consecutive runs of the account list, and in every run every extraction *)
(* task is attempted, whatever the other tasks end in.                     *)
C15_AccountsIsolated ==
    /\ [](dagPc = "parsed" =>
            /\ Len(tasks) = Len(accounts)
            /\ \A i \in DOMAIN accounts : TasksOf(i) = {i}
            /\ \A j \in DOMAIN tasks : tasks[j].group \in 1..num_groups
            /\ \A j, k \in DOMAIN tasks : j <= k => tasks[j].group <= tasks[k].group)
    /\ (dagPc = "parsed" ~> (\A j \in DOMAIN tasks : taskTries[j] >= 1))

\* The third account's task, alone in the second group, succeeded although
\* a task of the first group failed; the other task of the first group
\* succeeded next to the failed one.
C15_Witness ==
    /\ Len(tasks) = 3
    /\ taskState = <<"failed", "success", "success">>
    /\ taskTries[1] = RETRIES + 1
    /\ tasks[3].group = 2

\* The configuration has no token, no account, an item that is not
\* account_id:table_name, or two accounts with one id or one table.
ConfigInvalid ==
    \/ \A k \in DOMAIN envTokens : envTokens[k] = Blank
    \/ \A k \in DOMAIN envAccounts : envAccounts[k] = <<>>
    \/ \E k \in DOMAIN envAccounts : envAccounts[k] # <<>> /\ Len(envAccounts[k]) # 2
    \/ \E k, l \in DOMAIN envAccounts :
          /\ k # l /\ Len(envAccounts[k]) = 2 /\ Len(envAccounts[l]) = 2
          /\ (envAccounts[k][1] = envAccounts[l][1] \/ envAccounts[k][2] = envAccounts[l][2])

(* C19: with an empty token list, an empty or malformed account list (an   *)
(* item that does not split in two at a colon), or two accounts sharing an *)
(* id or a table, parsing the DAG file ends in a configuration error: no   *)
(* extraction task and no sync task exists or runs and no API request is   *)
(* issued.                                                                 *)
C19_ConfigErrorsFatal ==
    ConfigInvalid =>
        /\ dagPc \in {"load", "config_error"}
        /\ tasks = <<>> /\ taskState = <<>>
        /\ syncTask.state = "none"
        /\ apiCalls = {}

\* Two well-formed accounts with different ids share a table name.
C19_Witness ==
    /\ dagPc = "config_error"
    /\ envTokens = <<1>>
    /\ envAccounts = <<<<1, 1>>, <<2, 1>>>>

(* C20: in a parsed DAG the extraction task of the account at place i of   *)
(* accounts (counted from 0) holds tokens[i mod len(tokens)], and every    *)
(* API call made for that account used that token.                         *)
C20_TokenRotation ==
    dagPc = "parsed" =>
        /\ \A i \in DOMAIN accounts : \E j \in DOMAIN tasks :
              /\ tasks[j].account_id = accounts[i].account_id
              /\ tasks[j].token = tokens[((i - 1) % Len(tokens)) + 1]
        /\ \A call \in apiCalls : \E i \in DOMAIN accounts :
              /\ call[1] = accounts[i].account_id
              /\ call[2] = tokens[((i - 1) % Len(tokens)) + 1]

\* Two tokens and three accounts, the second after a blank item: the tasks
\* hold tokens 1, 2, 1 and all three have called the API.
C20_Witness ==
    /\ dagPc = "parsed"
    /\ tokens = <<1, 2>>
    /\ Len(accounts) = MaxAccounts
    /\ [j \in DOMAIN tasks |-> tasks[j].token] = <<1, 2, 1>>
    /\ Cardinality(apiCalls) = MaxAccounts

\* The pages fetched before the last request was sent.
PagesBefore ==
    IF lastResp # NoResp /\ lastResp # NetworkError /\ lastResp.status = 200
    THEN Len(fetched) - 1 ELSE Len(fetched)

(* C22: a request of paginate_api carries the query params exactly when no *)
(* page has been fetched before it (the first request and its retries);    *)
(* every request after a fetched page goes to the next-URL that page       *)
(* returned, whatever that URL is, and carries no params.                  *)
C22_ParamsOnlyFirst ==
    requests >= 1 =>
        /\ lastReq.params <=> (PagesBefore = 0)
        /\ lastReq.url = IF PagesBefore = 0 THEN url
                         ELSE server[fetched[PagesBefore]].next

(* C23: at no time are more than max_threads chunk inserts in flight; a    *)
(* chunk insert starts only for a chunk still queued and a chunk that has  *)
(* finished stays finished, so each chunk is attempted exactly once; and   *)
(* the sync has returned only when every chunk insert has finished, in     *)
(* success or in failure.                                                  *)
C23_BoundedPoolOneJoin ==
    /\ [](Cardinality(Running) <= syncArgs.max_threads)
    /\ [][syncPc' = "inserting" /\ syncPc = "inserting" =>
            \A k \in DOMAIN chunkState :
                /\ (chunkState'[k] = "running" /\ chunkState[k] # "running")
                       => chunkState[k] = "queued"
                /\ chunkState[k] \in {"ok", "failed"}
                       => chunkState'[k] = chunkState[k]
                /\ chunkState[k] = "running" => chunkState'[k] # "queued"]_vars
    /\ [][(syncPc = "inserting" /\ syncPc' = "returned") =>
            /\ chunkState' = chunkState
            /\ \A k \in DOMAIN chunkState : chunkState[k] \in {"ok", "failed"}]_vars
    /\ [](syncPc = "inserting" => Len(chunkState) = ChunkCount(sdf, syncArgs.chunksize))

\* With one worker, the first chunk is being inserted while the second
\* waits in the queue.
C23_Witness ==
    /\ syncPc = "inserting"
    /\ syncArgs.max_threads = 1
    /\ Len(chunkState) = 2
    /\ chunkState[1] = "running" /\ chunkState[2] = "queued"

\* The rows of frame dated d.
RowsOn(frame, d) == Cardinality({i \in DOMAIN frame : frame[i] = d})

(* C24: the chunks partition the rows read (in order they are the frame,   *)
(* none is empty, none has more than chunksize rows), and when the sync    *)
(* returned with no failed chunk insert, whatever the order the inserts    *)
(* ran and ended in, the rows of the target inside the cleared window      *)
(* [start_date, end_date] are exactly the rows read, each once.            *)
C24_ChunksPartitionOrderFree ==
    /\ syncPc \in {"inserting", "returned"} /\ sdf # <<>> =>
          LET n == ChunkCount(sdf, syncArgs.chunksize) IN
          /\ Flatten([k \in 1..n |-> Chunk(sdf, syncArgs.chunksize, k)]) = sdf
          /\ \A k \in 1..n :
                Len(Chunk(sdf, syncArgs.chunksize, k)) \in 1..syncArgs.chunksize
    /\ (syncPc = "returned" /\ sdf # <<>>
           /\ \A k \in DOMAIN chunkState : chunkState[k] = "ok") =>
          /\ \A d \in SyncDays :
                (start_date <= d /\ d <= end_date) => target[d] = RowsOn(sdf, d)
          /\ \A i \in DOMAIN sdf : start_date <= sdf[i] /\ sdf[i] <= end_date

(* C26: when the insert of the first call fails, the call raises and the   *)
(* rows the table had inside [minDate, maxDate] stay deleted while the     *)
(* rows outside are as before; when the delete fails, the call raises, the *)
(* table is unchanged and no insert is attempted.                          *)
C26_DeleteCommittedFirst ==
    (Len(upsLog) = 1 /\ upsLog[1] = "raised") =>
        /\ df # <<>>
        /\ deletes = 1
        /\ inserts = 1 =>
              \A r \in Rows :
                  table[r] = IF InBatchWindow(r) THEN 0 ELSE tableBefore[r]
        /\ inserts = 0 => table = tableBefore

\* The insert failed on a table that had rows inside the window.
C26_Witness ==
    /\ Len(upsLog) = 1 /\ upsLog[1] = "raised"
    /\ inserts = 1
    /\ table # tableBefore
    /\ \E r \in Rows : ~InBatchWindow(r) /\ tableBefore[r] > 0

\* The tables the extraction task j writes (graph_api.py:298-299).
TablesWritten(j) == {tasks[j].table, tasks[j].actions_table}

(* C25: in a DAG parsed from a configuration that validate_configuration   *)
(* accepted, the tables <table> and <table>_actions written by the task of *)
(* one account are disjoint from those written by the task of every other  *)
(* account.                                                                *)
C25_AccountTablesDisjoint ==
    dagPc = "parsed" =>
        \A i, j \in DOMAIN tasks :
            i # j => TablesWritten(i) \cap TablesWritten(j) = {}

(***************************************************************************)
(* Claims about the jobs' connection pools.                                *)
(***************************************************************************)
(* C21: in extract_account_data and in sync_to_sqlserver dispose is called *)
(* exactly once, after the work ended, whether it returned or raised: it   *)
(* has not been called while the work is under way, it has been called     *)
(* once when the task has ended, and after it no table of either store     *)
(* changes, no API request is sent and no chunk insert is under way.       *)
C21_DisposedExactlyOnce ==
    /\ [](step \in {"success", "failed"} => disposed = 1)
    /\ [](step \notin {"success", "failed"} => disposed = 0)
    /\ [](syncPc \in {"task_success", "task_failed"} => syncDisposed = 1)
    /\ [](syncPc \notin {"task_success", "task_failed"} => syncDisposed = 0)
    /\ [](syncDisposed >= 1 => Running = {} /\ Queued = {})
    /\ [][disposed >= 1 =>
            table' = table /\ actTable' = actTable /\ requests' = requests]_vars
    /\ [][syncDisposed >= 1 =>
            target' = target /\ chunkState' = chunkState /\ sdf' = sdf]_vars

\* The sync of the second mapping raised after the first returned: the
\* manager was disposed once and the task failed.
C21_Witness ==
    /\ syncPc = "task_failed"
    /\ mapping = Len(sync_mappings)
    /\ syncDisposed = 1

====
